---- MODULE Spec2Model ----
(***************************************************************************)
(* A model of crux's memory subsystem: ReservedMemory regions, the         *)
(* VirtualMemoryArena bump allocator (src/rt/mem.rs) and SizedVec /        *)
(* ArenaVec (src/data_structures/sized_vec.rs, src/data_structures.rs),    *)
(* and of the startup event's hook ordering (src/rt/hook.rs, entrypoint).  *)
(*                                                                         *)
(* Amounts are bytes.  `usize` is UsizeBits wide; the index type S of a    *)
(* SizedVec is SizeBits wide.  The two build switches that change what the *)
(* code does are state: safety_checks (cfg(safety_checks), build.rs:19,    *)
(* which turns safety_assert! into assert!) and overflow_checks (debug     *)
(* profile: integer overflow panics; release profile: it wraps).           *)
(***************************************************************************)
EXTENDS Integers, Sequences, FiniteSets, TLC

\* ------------------------------------------------------------------ bounds

\* Width of usize in bits.
UsizeBits == 16
\* Width in bits of S, the index type of a SizedVec<T, S, A>.
SizeBits == 4
\* Distinct element values pushed and written.
NumVals == 2
\* Largest amount handed to reserve().
MaxReserve == 2
\* Largest Layout size handed to VirtualMemoryArena::allocate.
MaxLayout == 2
\* Arenas alive at once: the root and the arenas split from it.
MaxArenas == 2
\* ArenaCheckpoint values the caller holds at once.
MaxCheckpoints == 1
\* Calls the program makes in one run.
MaxCalls == 5
\* Calls on a vec other than push and try_push the program makes in one run.
MaxOthers == 2

UsizeMax == 2^UsizeBits - 1

\* The amounts select is asked for: everything a reservation can hold, up to
\* two more, and the two largest usize (where offset + len leaves usize).
SelectAmounts == 0..(MaxReserve + 2) \cup {UsizeMax - 1, UsizeMax}

\* --------------------------------------------------------------- variables

VARIABLES
    safety_checks,    \* cfg(safety_checks): safety_assert! is assert!
    overflow_checks,  \* debug profile: arithmetic overflow panics
    region,           \* SpecSelect: the ReservedMemory select is applied to
    arenas,           \* sequence of VirtualMemoryArena, [reserved, committed, used]
    parents,          \* parents[a]: the arena that arenas[a] was split from, 0 for the root
    cps,              \* ArenaCheckpoint values held, each with the arena it is from
    os,               \* what the drops of arenas did: who was dropped, what the OS was handed
    trip,             \* progress of a checkpoint/allocate/restore/allocate sequence
    T_size,           \* size_of::<T>() of the SizedVec<T, S, A> under study
    vec,              \* the SizedVec: [capacity, len, base_ptr, alloc]
    mem,              \* memory written through the vec: address -> element
    rw,               \* pages of the vec's reservation the OS made accessible
    block,            \* the block the vec obtained last from its allocator
    written,          \* index -> the value written last at it through the API
    hist,             \* the calls made on the vec so far, as far as claims ask
    race,             \* the pushes under way that are not serialized: where each is
    event,            \* the startup Event: its XStat list of registered hooks
    solving,          \* Event::solve under way in entrypoint: its locals and where it is
    last,             \* the last call: its arguments and what it returned
    calls             \* number of calls made so far

build == <<safety_checks, overflow_checks>>
arenaSide == <<region, arenas, parents, os, cps, trip>>
vecSide == <<T_size, vec, mem, rw, block, written, hist, race>>
hookSide == <<event, solving>>
vars == <<build, arenaSide, vecSide, hookSide, last, calls>>

\* ------------------------------------------------------------ MemoryAmount

\* impl Add for MemoryAmount: self.0 + rhs.0 on usize.
\* Release profile: wraps.  Debug profile: panics (see Overflows).
MemoryAmount_add(a, b) == (a + b) % (UsizeMax + 1)

\* impl Sub for MemoryAmount: self.0 - rhs.0 on usize.
MemoryAmount_sub(a, b) == (a - b) % (UsizeMax + 1)

\* Whether a + b leaves usize.
Overflows(a, b) == a + b > UsizeMax

\* ----------------------------------------------------------- ReservedMemory

\* A ReservedMemory {base_ptr, amount}; base is base_ptr as a byte offset
\* from the start of the OS reservation it lies in.
ReservedMemory(base, amount) == [base |-> base, amount |-> amount]

NoRegion == ReservedMemory(0, 0)

Outcome(res, r) == [res |-> res, region |-> r]

\* ReservedMemory::select_unchecked.  The safety_assert! is compiled (and its
\* operands evaluated) only under cfg(safety_checks).
select_unchecked(self, offset, len) ==
    IF safety_checks /\ overflow_checks /\ Overflows(offset, len)
    THEN Outcome("Panic", NoRegion)
    ELSE IF safety_checks
            /\ ~(self.base + self.amount > self.base + MemoryAmount_add(offset, len))
    THEN Outcome("Panic", NoRegion)
    ELSE Outcome("Ok", ReservedMemory(self.base + offset, len))

\* ReservedMemory::select.
select(self, offset, len) ==
    IF overflow_checks /\ Overflows(offset, len)
    THEN Outcome("Panic", NoRegion)
    ELSE LET selected_end == self.base + MemoryAmount_add(offset, len)
             region_end == self.base + self.amount
         IN IF selected_end <= region_end
            THEN select_unchecked(self, offset, len)
            ELSE Outcome("Err", NoRegion)

\* ------------------------------------------------------- the last call made

\* os_reserve, os_commit: what the OS answered to the call's reserve and commit;
\* shape: the kind of range a get_range call was given; steps: the calls a
\* destructor made, in order; bytes: the UTF-8 encoding of the str or char a
\* push_str / push_char call was given.
NoCall ==
    [op |-> "none", arena |-> 0, arg |-> 0, arg2 |-> 0,
     res |-> "none", err |-> "none", off |-> 0, amt |-> 0, oob |-> FALSE,
     os_reserve |-> TRUE, os_commit |-> TRUE, shape |-> "none", steps |-> <<>>,
     bytes |-> <<>>]

\* The process is gone: a panic unwound it or a memory fault killed it.

Panicked == last.res \in {"Panic", "Fault"}

\* The object under study was dropped.
Dropped == last.op = "drop"

\* The program makes one more call.
Call == ~Panicked /\ ~Dropped /\ calls < MaxCalls /\ calls' = calls + 1

\* No arena was dropped.  dropped: the arenas that were; by, uncommitted and
\* unreserved: for each drop in order, the arena dropped and the regions it
\* handed to uncommit and to unreserve.
NoDrops == [dropped |-> {}, by |-> <<>>, uncommitted |-> <<>>, unreserved |-> <<>>]

\* No checkpoint/allocate/restore/allocate sequence is under way.  stage counts
\* the calls of the sequence made so far (5: its second allocate failed);
\* used0 is `used` when the checkpoint was taken, cp the checkpoint, x the
\* size allocated, off1 and off2 the offsets the two allocate calls returned.
NoTrip ==
    [stage |-> 0, arena |-> 0, used0 |-> 0, cp |-> 0, x |-> 0, off1 |-> 0, off2 |-> 0]

\* Nothing was called on the vec yet.  pushed: the values pushed, in order;
\* only_pushes: every call that changed the vec was a push that was accepted;
\* only_writes: every such call was such a push or a get_mut write; others: the calls that were no push.
NoHist ==
    [pushed |-> <<>>, only_pushes |-> TRUE, only_writes |-> TRUE, others |-> 0]

\* The threads that push to the same ArenaVec without serialization.
Pushers == 1..2

\* No such push has begun.  pc: the statement of try_push each pusher is
\* at; ptr: the slot address it computed; tmp: the len it loaded for
\* `self.len += 1`; len0: len when the first of them began.
NoRace ==
    [pc |-> [p \in Pushers |-> "idle"], ptr |-> [p \in Pushers |-> 0],
     tmp |-> [p \in Pushers |-> 0], len0 |-> 0]

\* No XStatEntry exists, the Event is Event::default() and entrypoint was not
\* entered.  base, head and next hold 0 for None and otherwise the number of
\* an XStatEntry static; value[e] is the Hook of entry e.  pc: where
\* entrypoint is; res: what solve returned; ran: the hook functions entrypoint
\* called, in order; exit: what entrypoint returned.
NoStartup ==
    /\ event = [base |-> 0, head |-> 0, next |-> <<>>, value |-> <<>>]
    /\ solving = [pc |-> "ini", hooks_stable |-> <<>>, links |-> <<>>,
                  hooks_real |-> <<>>, output |-> <<>>, res |-> "none",
                  ran |-> <<>>, exit |-> "none"]

\* No SizedVec is under study.
NoVec ==
    /\ T_size = 1
    /\ vec = [capacity |-> 0, len |-> 0, base_ptr |-> 0, alloc |-> 0]
    /\ mem = <<>>
    /\ rw = {}
    /\ block = [ptr |-> 0, size |-> 0]
    /\ written = <<>>
    /\ hist = NoHist
    /\ race = NoRace

\* ------------------------------------------------------ SpecSelect (select)

\* The regions select is applied to: any sub-range of a reservation.
InitSelect ==
    /\ safety_checks \in BOOLEAN
    /\ overflow_checks \in BOOLEAN
    /\ region \in {ReservedMemory(b, n) : b \in 0..1, n \in 0..MaxReserve}
    /\ arenas = <<>>
    /\ parents = <<>>
    /\ os = NoDrops
    /\ cps = {}
    /\ trip = NoTrip
    /\ NoVec
    /\ last = NoCall
    /\ calls = 0
    /\ NoStartup

\* A call of region.select(offset, len).
CallSelect ==
    /\ Call
    /\ \E offset \in SelectAmounts, len \in SelectAmounts :
        LET r == select(region, offset, len)
        IN last' = [NoCall EXCEPT !.op = "select", !.res = r.res,
                                  !.arg = offset, !.arg2 = len,
                                  !.off = r.region.base, !.amt = r.region.amount]
    /\ UNCHANGED <<build, hookSide, arenaSide, vecSide>>

NextSelect == CallSelect

SpecSelect == InitSelect /\ [][NextSelect]_vars


\* ------------------------------------------------------ VirtualMemoryArena

\* A VirtualMemoryArena {reserved, committed, used}.
Arena(reserved, committed, used) ==
    [reserved |-> reserved, committed |-> committed, used |-> used]

NoArena == Arena(NoRegion, 0, 0)

\* What a constructor returns: res is Ok, Err or Panic; err names the error.
Built(res, err, a) == [res |-> res, err |-> err, arena |-> a]

\* VirtualMemoryArena::new.  reserve() fails when the OS refuses (os_reserve).
VirtualMemoryArena_new(to_reserve, os_reserve) ==
    IF ~os_reserve
    THEN Built("Err", "Unit", NoArena)
    ELSE Built("Ok", "none", Arena(ReservedMemory(0, to_reserve), 0, 0))

\* VirtualMemoryArena::new_preallocate.
new_preallocate(to_reserve, to_commit, os_reserve, os_commit) ==
    IF ~os_reserve
    THEN Built("Err", "Reserve", NoArena)
    ELSE LET reserved == ReservedMemory(0, to_reserve)
             to_preallocate == select(reserved, 0, to_commit)
         IN IF to_preallocate.res = "Panic" THEN Built("Panic", "none", NoArena)
            ELSE IF to_preallocate.res = "Err"
            THEN Built("Err", "PreallocatedMemoryTooLarge", NoArena)
            ELSE IF ~os_commit THEN Built("Err", "Commit", NoArena)
            ELSE Built("Ok", "none", Arena(reserved, to_commit, 0))

\* An allocate that reports no commit to the OS.
Allocated_no_commit(res, err, a, off, cm, cm_off, cm_len) ==
    [res |-> res, err |-> err, arena |-> a, off |-> off,
     cm |-> FALSE, cm_off |-> 0, cm_len |-> 0]

\* What Allocator::allocate returns: the arena afterwards, the byte offset of
\* the block (from the start of the OS reservation) and the commit it issued.
Allocated(res, err, a, off, cm, cm_off, cm_len) ==
    [res |-> res, err |-> err, arena |-> a, off |-> off,
     cm |-> cm, cm_off |-> cm_off, cm_len |-> cm_len]

\* An allocate that has advanced `used` before it finds the commit refused.
allocate_used_first(self, needed, os_commit) ==
    LET committed == self.committed
        used == self.used
        available == MemoryAmount_sub(committed, used)
        ptr == self.reserved.base + used
        taken == [self EXCEPT !.used = MemoryAmount_add(used, needed)]
    IN IF available < needed
       THEN LET diff == MemoryAmount_sub(needed, available)
                to_commit == select(self.reserved, committed, diff)
            IN IF to_commit.res = "Panic"
               THEN Allocated("Panic", "none", self, 0, FALSE, 0, 0)
               ELSE IF to_commit.res = "Err"
               THEN Allocated("Err", "select", taken, 0, FALSE, 0, 0)
               ELSE IF ~os_commit
               THEN Allocated("Err", "commit", taken, 0,
                              TRUE, to_commit.region.base, to_commit.region.amount)
               ELSE Allocated("Ok", "none",
                              [taken EXCEPT !.committed = MemoryAmount_add(committed, diff)],
                              ptr, TRUE, to_commit.region.base, to_commit.region.amount)
       ELSE Allocated("Ok", "none", taken, ptr, FALSE, 0, 0)

\* impl Allocator for VirtualMemoryArena: allocate.  needed is layout.size();
\* os_commit is whether the OS accepts the commit, if one is issued.
allocate(self, needed, os_commit) ==
    LET committed == self.committed
        used == self.used
        available == MemoryAmount_sub(committed, used)
        ptr == self.reserved.base + used
    IN IF available < needed
       THEN LET diff == MemoryAmount_sub(needed, available)
                to_commit == select(self.reserved, committed, diff)
            IN IF to_commit.res = "Panic"
               THEN Allocated("Panic", "none", self, 0, FALSE, 0, 0)
               ELSE IF to_commit.res = "Err"
               THEN Allocated("Err", "select", self, 0, FALSE, 0, 0)
               ELSE IF ~os_commit
               THEN Allocated("Err", "commit", self, 0,
                              TRUE, to_commit.region.base, to_commit.region.amount)
               ELSE Allocated("Ok", "none",
                              [self EXCEPT !.committed = MemoryAmount_add(committed, diff),
                                           !.used = MemoryAmount_add(used, needed)],
                              ptr, TRUE, to_commit.region.base, to_commit.region.amount)
       ELSE Allocated("Ok", "none",
                      [self EXCEPT !.used = MemoryAmount_add(used, needed)],
                      ptr, FALSE, 0, 0)

\* One call a method or a destructor made, in the order made: drop_in_place
\* of the item at index idx, deallocate(ptr, layout) with layout.size() = size,
\* or commit / uncommit / unreserve of the size bytes at ptr.
Step(call, idx, ptr, size) == [call |-> call, idx |-> idx, ptr |-> ptr, size |-> size]

\* The commit an allocate issued, if it issued one.
Commits(r) == IF r.cm THEN <<Step("commit", 0, r.cm_off, r.cm_len)>> ELSE <<>>

\* VirtualMemoryArena::checkpoint.
checkpoint(self) == self.used

\* A restore_checkpoint that forgets to move `used` back.
restore_checkpoint_keeps_used(self, cp) == self

\* VirtualMemoryArena::restore_checkpoint.
restore_checkpoint(self, cp) == [self EXCEPT !.used = cp]

\* VirtualMemoryArena::split: the arena it returns (self is not changed).
split(self, amount) ==
    LET commited == self.committed
        used == self.used
        reserved == select(self.reserved, used, amount)
    IN IF reserved.res # "Ok"
       THEN Built(reserved.res, IF reserved.res = "Err" THEN "Unit" ELSE "none", NoArena)
       ELSE Built("Ok", "none",
                  Arena(reserved.region, MemoryAmount_sub(commited, used), 0))

\* VirtualMemoryArena::available_total_memory.
available_total_memory(self) == MemoryAmount_sub(self.reserved.amount, self.used)

\* VirtualMemoryArena::split_unchecked.
split_unchecked(self, amount) ==
    LET commited == self.committed
        used == self.used
    IN IF safety_checks /\ overflow_checks /\ self.used > self.reserved.amount
       THEN Built("Panic", "none", NoArena)
       ELSE IF safety_checks /\ ~(amount < available_total_memory(self))
       THEN Built("Panic", "none", NoArena)
       ELSE LET reserved == select_unchecked(self.reserved, used, amount)
            IN IF reserved.res # "Ok"
               THEN Built("Panic", "none", NoArena)
               ELSE Built("Ok", "none",
                          Arena(reserved.region, MemoryAmount_sub(commited, used), 0))

\* ------------------------------------------------- SpecArena (arena calls)

\* The amounts split is asked for: everything a reservation can hold, one
\* more, and the largest usize (where used + amount leaves usize).
SplitAmounts == 0..(MaxReserve + 1) \cup {UsizeMax}

\* The OS is asked to commit only when the committed bytes left are too few.
CommitAnswers(a, needed) ==
    IF MemoryAmount_sub(a.committed, a.used) < needed THEN BOOLEAN ELSE {TRUE}

\* The arenas alive.
ArenaIds == 1..Len(arenas) \ os.dropped

\* The call record of a call on arena a.
CallOn(op, a) == [NoCall EXCEPT !.op = op, !.arena = a]

InitArena ==
    /\ safety_checks \in BOOLEAN
    /\ overflow_checks \in BOOLEAN
    /\ region = NoRegion
    /\ arenas = <<>>
    /\ parents = <<>>
    /\ os = NoDrops
    /\ cps = {}
    /\ trip = NoTrip
    /\ NoVec
    /\ last = NoCall
    /\ calls = 0
    /\ NoStartup

\* VirtualMemoryArena::new(to_reserve), the first arena of the program.
ArenaNew ==
    /\ Call
    /\ arenas = <<>>
    /\ \E to_reserve \in 1..MaxReserve, os_reserve \in BOOLEAN :
        LET r == VirtualMemoryArena_new(to_reserve, os_reserve)
        IN /\ arenas' = IF r.res = "Ok" THEN <<r.arena>> ELSE arenas
           /\ parents' = IF r.res = "Ok" THEN <<0>> ELSE parents
           /\ last' = [NoCall EXCEPT !.op = "new", !.res = r.res, !.err = r.err,
                                     !.arg = to_reserve]
    /\ UNCHANGED <<build, hookSide, os, region, cps, trip, vecSide>>

\* VirtualMemoryArena::new_preallocate(to_reserve, to_commit).
ArenaNewPreallocate ==
    /\ Call
    /\ arenas = <<>>
    /\ \E to_reserve \in 1..MaxReserve, to_commit \in 0..(MaxReserve + 1),
          os_reserve \in BOOLEAN, os_commit \in BOOLEAN :
        LET r == new_preallocate(to_reserve, to_commit, os_reserve, os_commit)
        IN /\ arenas' = IF r.res = "Ok" THEN <<r.arena>> ELSE arenas
           /\ parents' = IF r.res = "Ok" THEN <<0>> ELSE parents
           /\ last' = [NoCall EXCEPT !.op = "new_preallocate", !.res = r.res,
                                     !.err = r.err, !.arg = to_reserve,
                                     !.arg2 = to_commit,
                                     !.os_reserve = os_reserve,
                                     !.os_commit = os_commit]
    /\ UNCHANGED <<build, hookSide, os, region, cps, trip, vecSide>>

\* The checkpoint/allocate/restore/allocate sequence after an allocate call.
TripAllocate(a, needed, r) ==
    IF trip.stage = 1 /\ trip.arena = a /\ r.res = "Ok"
    THEN [trip EXCEPT !.stage = 2, !.x = needed, !.off1 = r.off]
    ELSE IF trip.stage = 3 /\ trip.arena = a /\ trip.x = needed
    THEN [trip EXCEPT !.stage = IF r.res = "Ok" THEN 4 ELSE 5, !.off2 = r.off]
    ELSE NoTrip

\* arenas[a].allocate(layout) with layout.size() = needed.
ArenaAllocate ==
    /\ Call
    /\ \E a \in ArenaIds, needed \in 0..MaxLayout :
       \E os_commit \in CommitAnswers(arenas[a], needed) :
        LET r == allocate(arenas[a], needed, os_commit)
        IN /\ arenas' = [arenas EXCEPT ![a] = r.arena]
           /\ trip' = TripAllocate(a, needed, r)
           /\ last' = [CallOn("allocate", a) EXCEPT
                          !.res = r.res, !.err = r.err, !.arg = needed,
                          !.off = r.off, !.os_commit = os_commit,
                          !.steps = Commits(r)]
    /\ UNCHANGED <<build, hookSide, os, region, parents, cps, vecSide>>

\* arenas[a].deallocate(ptr, layout): an empty body.
ArenaDeallocate ==
    /\ Call
    /\ \E a \in ArenaIds :
        last' = [CallOn("deallocate", a) EXCEPT !.res = "Ok"]
    /\ trip' = NoTrip
    /\ UNCHANGED <<build, hookSide, os, region, arenas, parents, cps, vecSide>>

\* cp = arenas[a].checkpoint(); the caller keeps at most MaxCheckpoints.
ArenaCheckpoint ==
    /\ Call
    /\ \E a \in ArenaIds :
        LET cp == [arena |-> a, amount |-> checkpoint(arenas[a])]
        IN /\ \E kept \in SUBSET cps :
                /\ Cardinality(kept) < MaxCheckpoints
                /\ Cardinality(kept) >= Cardinality(cps \ {cp}) - 1
                /\ cps' = kept \cup {cp}
           /\ trip' = [NoTrip EXCEPT !.stage = 1, !.arena = a,
                                     !.used0 = arenas[a].used, !.cp = cp.amount]
           /\ last' = [CallOn("checkpoint", a) EXCEPT !.res = "Ok", !.amt = cp.amount]
    /\ UNCHANGED <<build, hookSide, os, region, arenas, parents, vecSide>>

\* arenas[cp.arena].restore_checkpoint(cp), cp taken from that same arena.
ArenaRestoreCheckpoint ==
    /\ Call
    /\ \E cp \in cps :
        /\ arenas' = [arenas EXCEPT
                         ![cp.arena] = restore_checkpoint(arenas[cp.arena], cp.amount)]
        /\ trip' = IF trip.stage = 2 /\ trip.arena = cp.arena /\ trip.cp = cp.amount
                   THEN [trip EXCEPT !.stage = 3]
                   ELSE NoTrip
        /\ last' = [CallOn("restore_checkpoint", cp.arena) EXCEPT
                       !.res = "Ok", !.arg = cp.amount]
    /\ UNCHANGED <<build, hookSide, os, region, parents, cps, vecSide>>

\* child = arenas[a].split(amount).
ArenaSplit ==
    /\ Call
    /\ Len(arenas) < MaxArenas
    /\ \E a \in ArenaIds, amount \in SplitAmounts :
        LET r == split(arenas[a], amount)
        IN /\ arenas' = IF r.res = "Ok" THEN Append(arenas, r.arena) ELSE arenas
           /\ parents' = IF r.res = "Ok" THEN Append(parents, a) ELSE parents
           /\ last' = [CallOn("split", a) EXCEPT
                          !.res = r.res, !.err = r.err, !.arg = amount]
    /\ trip' = NoTrip
    /\ UNCHANGED <<build, hookSide, os, region, cps, vecSide>>

\* child = unsafe { arenas[a].split_unchecked(amount) }, called as its safety
\* section demands: no more than the arena has left.
ArenaSplitUnchecked ==
    /\ Call
    /\ Len(arenas) < MaxArenas
    /\ \E a \in ArenaIds, amount \in SplitAmounts :
        /\ arenas[a].used + amount <= arenas[a].reserved.amount
        /\ LET r == split_unchecked(arenas[a], amount)
           IN /\ arenas' = IF r.res = "Ok" THEN Append(arenas, r.arena) ELSE arenas
              /\ parents' = IF r.res = "Ok" THEN Append(parents, a) ELSE parents
              /\ last' = [CallOn("split_unchecked", a) EXCEPT
                             !.res = r.res, !.err = r.err, !.arg = amount]
    /\ trip' = NoTrip
    /\ UNCHANGED <<build, hookSide, os, region, cps, vecSide>>

NextArena ==
    \/ ArenaNew
    \/ ArenaNewPreallocate
    \/ ArenaAllocate
    \/ ArenaDeallocate
    \/ ArenaCheckpoint
    \/ ArenaRestoreCheckpoint
    \/ ArenaSplit
    \/ ArenaSplitUnchecked

SpecArena == InitArena /\ [][NextArena]_vars


\* ---------------------------------------------------------------- SizedVec

\* MemoryAmount::kibibytes(1) in bytes.
KiB == 1024

\* page_size(): sysconf(_SC_PAGE_SIZE) / SYSTEM_INFO.page_size, in bytes.
PageSize == 4096

\* <S as Integer>::MAX.
SMax == 2^SizeBits - 1

\* Arithmetic on S in the release profile: it wraps.
S_wrap(n) == n % (SMax + 1)

\* IndexSize::usize_as_self: `usize as Self`, a truncating cast.
usize_as_self(n) == n % (SMax + 1)

\* Integer::saturating_mul on S.
saturating_mul(a, b) == IF a * b > SMax THEN SMax ELSE a * b

\* The element values of the model; 0 is what untouched committed memory holds.
Vals == 1..NumVals

\* SizedVec::BASE_ALLOC_COUNT.
BASE_ALLOC_COUNT ==
    IF T_size = 1 THEN S_wrap(5 + 3) ELSE IF T_size < 1024 THEN 4 ELSE 1

\* SizedVec::layout(count), as its size in bytes.
layout(count) == count * T_size

\* NonNull::dangling(): an address outside every reservation.
DanglingPtr == 0 - 2^UsizeBits

\* SizedVec::with_allocator.
with_allocator(allocator) ==
    [capacity |-> 0, len |-> 0, base_ptr |-> DanglingPtr, alloc |-> allocator]

\* ArenaVec::new after reserve() succeeded.
ArenaVec_new(to_reserve) ==
    with_allocator(VirtualMemoryArena_new(to_reserve, TRUE).arena)

\* What a method of the vec works on and leaves behind: the vec, the memory,
\* the pages the OS made readable and writable, the block the allocator
\* returned last, the values written through the API, and whether a write of
\* the call went outside that block.
VecState(v, m, p, b, w) ==
    [vec |-> v, mem |-> m, rw |-> p, block |-> b, written |-> w, oob |-> FALSE]

\* What a method returns (res: Ok, Err, None, Panic or Fault) and leaves behind.
Ret(res, err, st) == [res |-> res, err |-> err, st |-> st]

\* The page an address lies in.
PageOf(addr) == addr \div PageSize

\* reserve(): mmap / VirtualAlloc map whole pages, none of them accessible.
MappedPages(st) ==
    {p \in 0..PageOf(st.vec.alloc.reserved.amount) :
        p * PageSize < st.vec.alloc.reserved.amount}

\* commit(): mprotect / VirtualAlloc change the protection of every page that
\* holds a byte of the range.
CommittedPages(off, len) ==
    IF len = 0 THEN {} ELSE PageOf(off)..PageOf(off + len - 1)

\* The address of slot idx: self.base_ptr.add(idx).
SlotAddr(st, idx) == st.vec.base_ptr + idx * T_size

\* The pages the element at addr lies in.
Touched(addr) == PageOf(addr)..PageOf(addr + T_size - 1)

\* Whether an access of the element at addr goes through.  Inside the
\* reservation the page protection decides.  Outside of it the access is
\* undefined behaviour that either goes through or faults (lands).
Lands(st, addr, lands) ==
    IF Touched(addr) \subseteq st.rw THEN TRUE
    ELSE IF Touched(addr) \cap (MappedPages(st) \ st.rw) # {} THEN FALSE
    ELSE lands

\* Slot idx lies inside the block the allocator returned last.
InBlock(st, idx) ==
    /\ SlotAddr(st, idx) >= st.block.ptr
    /\ SlotAddr(st, idx) + T_size <= st.block.ptr + st.block.size

\* A write that records the index as written but stores nothing.
Store_nothing(st, idx, item) == [st EXCEPT !.written = (idx :> item) @@ @]

\* ptr.write(item) on slot idx.
Store(st, idx, item) ==
    [st EXCEPT !.mem = (SlotAddr(st, idx) :> item) @@ @,
               !.written = (idx :> item) @@ @,
               !.oob = @ \/ ~InBlock(st, idx)]

\* The element at addr: what was written there, else the zero of fresh pages.
Load(st, addr) == IF addr \in DOMAIN st.mem THEN st.mem[addr] ELSE 0

\* self.base_ptr = <the block r that allocate returned>.cast().
Obtained(st, r, count) ==
    [st EXCEPT !.vec.alloc = r.arena,
               !.vec.base_ptr = r.off,
               !.rw = IF r.cm THEN @ \cup CommittedPages(r.cm_off, r.cm_len) ELSE @,
               !.block = [ptr |-> r.off, size |-> layout(count)]]

\* The first `count` elements at `from`, copied to `to`.
Moved(m, from, to, count) ==
    LET old == {from + i * T_size : i \in 0..(count - 1)} \cap DOMAIN m
    IN [a \in (DOMAIN m) \cup {to + (o - from) : o \in old} |->
            IF from + (a - to) \in old THEN m[from + (a - to)] ELSE m[a]]

\* `self.base_ptr = <r>.cast()` for what self.alloc.allocate returned, r.
Rebased(st, r, count) ==
    IF r.res = "Ok"
    THEN Ret("Ok", "none", Obtained(st, r, count))
    ELSE Ret(r.res, r.err, st)

\* The same for what self.alloc.grow / shrink returned: VirtualMemoryArena
\* keeps the Allocator trait's default, which allocates the new block (r),
\* copies the smaller of the two sizes and deallocates the old block (an
\* empty body here).
Regrown(st, r, old_count, new_count) ==
    IF r.res = "Ok"
    THEN Ret("Ok", "none",
             [Obtained(st, r, new_count) EXCEPT
                 !.mem = Moved(st.mem, st.vec.base_ptr, r.off,
                               IF old_count < new_count THEN old_count ELSE new_count)])
    ELSE Ret(r.res, r.err, st)

\* self.alloc.grow / self.alloc.shrink(self.base_ptr, layout(old_count),
\* layout(new_count)).
regrow(st, old_count, new_count, os_commit) ==
    Regrown(st, allocate(st.vec.alloc, layout(new_count), os_commit),
            old_count, new_count)

\* .unwrap() on what the allocator returned.
unwrap_alloc(g) == IF g.res = "Ok" THEN g ELSE Ret("Panic", g.err, g.st)

\* .unwrap() on what a try_ method returned.
unwrap(r) == IF r.res = "Err" THEN Ret("Panic", "unwrap", r.st) ELSE r

\* SizedVec::try_push, its first statement: the `if self.len == self.capacity`.
try_push_grow(st, os_commit) ==
    IF st.vec.len = st.vec.capacity
    THEN IF st.vec.capacity = 0
         THEN unwrap_alloc(Rebased(st,
                  allocate(st.vec.alloc, layout(BASE_ALLOC_COUNT), os_commit),
                  BASE_ALLOC_COUNT))
         ELSE IF st.vec.capacity = SMax
         THEN Ret("Err", "Unit", st)
         ELSE unwrap_alloc(regrow(st, st.vec.capacity,
                                  saturating_mul(st.vec.capacity, 2), os_commit))
    ELSE Ret("Ok", "none", st)

\* SizedVec::try_push, its last three statements: the slot at len is taken,
\* len is incremented, the item is written.
try_push_write(st, item, lands) ==
    IF st.vec.len = SMax /\ overflow_checks
    THEN Ret("Panic", "overflow", st)
    ELSE IF ~Lands(st, SlotAddr(st, st.vec.len), lands)
    THEN Ret("Fault", "none", [st EXCEPT !.vec.len = S_wrap(@ + 1)])
    ELSE Ret("Ok", "none",
             [Store(st, st.vec.len, item) EXCEPT !.vec.len = S_wrap(@ + 1)])

\* SizedVec::try_push after its first statement returned grown.
try_push_then(grown, item, lands) ==
    IF grown.res # "Ok" THEN grown ELSE try_push_write(grown.st, item, lands)

\* SizedVec::try_push.
try_push(st, item, os_commit, lands) ==
    try_push_then(try_push_grow(st, os_commit), item, lands)

\* SizedVec::push: try_push(item).unwrap().
push(st, item, os_commit, lands) == unwrap(try_push(st, item, os_commit, lands))

\* .map_err(|_| SizedVecReallocError::ReallocationFailed)?
map_err(g) ==
    IF g.res = "Ok" \/ g.res = "Panic" THEN g
    ELSE Ret("Err", "ReallocationFailed", g.st)

\* SizedVec::reallocate_with_capacity.
reallocate_with_capacity(st, count, os_commit) ==
    IF st.vec.capacity = count
    THEN Ret("Ok", "none", st)
    ELSE IF st.vec.capacity < count
    THEN IF st.vec.capacity = 0
         THEN map_err(Rebased(st, allocate(st.vec.alloc, layout(count), os_commit),
                              count))
         ELSE map_err(regrow(st, st.vec.capacity, count, os_commit))
    ELSE IF st.vec.len < count
    THEN map_err(regrow(st, st.vec.capacity, count, os_commit))
    ELSE Ret("Err", "CannotShrink", st)

\* SizedVec::reserve_additional_capacity, its inner match on what
\* reallocate_with_capacity returned.
reserve_match(r) ==
    IF r.err = "CannotShrink" THEN Ret("Panic", "unreachable", r.st) ELSE r

\* SizedVec::reserve_additional_capacity.
reserve_additional_capacity(st, count, os_commit) ==
    IF st.vec.capacity + count > SMax
    THEN Ret("Err", "MaxPossibleCapacity", st)
    ELSE reserve_match(
             reallocate_with_capacity(st, st.vec.capacity + count, os_commit))

\* SizedVec::remaining_capacity: self.capacity - self.len on S.
remaining_capacity(st) == S_wrap(st.vec.capacity - st.vec.len)

\* Whether self.capacity - self.len leaves S.
Underflows(st) == st.vec.len > st.vec.capacity

\* SizedVec::ensure_additional_capacity.
ensure_additional_capacity(st, count, os_commit) ==
    IF overflow_checks /\ Underflows(st)
    THEN Ret("Panic", "overflow", st)
    ELSE IF remaining_capacity(st) <= count
    THEN Ret("Ok", "none", st)
    ELSE reserve_additional_capacity(st, count, os_commit)

RECURSIVE StoreAll(_, _, _)
\* ptr::copy_nonoverlapping(src, dest, slice.len()) to the slots from idx on.
StoreAll(st, idx, slice) ==
    IF slice = <<>> THEN st
    ELSE StoreAll(Store(st, idx, Head(slice)), idx + 1, Tail(slice))

\* SizedVec::extend_slice_unchecked, after the copy:
\* self.len += S::usize_as_self(slice.len()).
extend_len(copied, n) ==
    IF overflow_checks /\ copied.vec.len + n > SMax
    THEN Ret("Panic", "overflow", copied)
    ELSE Ret("Ok", "none", [copied EXCEPT !.vec.len = S_wrap(@ + n)])

\* SizedVec::extend_slice_unchecked.
extend_slice_unchecked(st, slice, lands) ==
    IF \E k \in 0..(Len(slice) - 1) : ~Lands(st, SlotAddr(st, st.vec.len + k), lands)
    THEN Ret("Fault", "none", st)
    ELSE extend_len(StoreAll(st, st.vec.len, slice), usize_as_self(Len(slice)))

\* SizedVec::try_extend_slice after ensure_additional_capacity returned e.
try_extend_slice_then(e, slice, lands) ==
    IF e.res # "Ok" THEN e ELSE extend_slice_unchecked(e.st, slice, lands)

\* SizedVec::try_extend_slice.
try_extend_slice(st, slice, os_commit, lands) ==
    try_extend_slice_then(
        ensure_additional_capacity(st, usize_as_self(Len(slice)), os_commit),
        slice, lands)

\* SizedVec::extend_slice: try_extend_slice(slice).unwrap().
extend_slice(st, slice, os_commit, lands) ==
    unwrap(try_extend_slice(st, slice, os_commit, lands))

\* Writer::write: `return Err(err)` after the copy of the prefix returned w.
return_err(w, err) == IF w.res = "Ok" THEN Ret("Err", err, w.st) ELSE w

\* Writer::write, the body of its `if let Err(err)`.  `&bytes[..available]`
\* panics when available > bytes.len().
write_available(e, bytes, lands) ==
    IF overflow_checks /\ Underflows(e.st)
    THEN Ret("Panic", "overflow", e.st)
    ELSE IF remaining_capacity(e.st) > Len(bytes)
    THEN Ret("Panic", "slice index", e.st)
    ELSE return_err(
             extend_slice_unchecked(
                 e.st, SubSeq(bytes, 1, remaining_capacity(e.st)), lands),
             e.err)

\* Writer::write after ensure_additional_capacity returned e.
write_then(e, bytes, lands) ==
    IF e.res = "Panic" THEN e
    ELSE IF e.res = "Err" THEN write_available(e, bytes, lands)
    ELSE extend_slice_unchecked(e.st, bytes, lands)

\* impl Writer for SizedVec<u8, S, A>: write.
write(st, bytes, os_commit, lands) ==
    write_then(ensure_additional_capacity(st, usize_as_self(Len(bytes)), os_commit),
               bytes, lands)

\* What a read returns: Some(val), None, or a fault.
Read(res, val) == [res |-> res, val |-> val]

\* The outcomes of reading the element at addr.  Outside the reservation the
\* read is undefined behaviour: it faults or gives whatever lies there.
ReadAt(st, addr) ==
    IF Touched(addr) \subseteq st.rw
    THEN {Read("Some", Load(st, addr))}
    ELSE IF Touched(addr) \cap (MappedPages(st) \ st.rw) # {}
    THEN {Read("Fault", 0)}
    ELSE {Read("Fault", 0)} \cup {Read("Some", v) : v \in {0} \cup Vals}

\* SizedVec::get / get_unchecked: every outcome the read of index idx can have.
get(st, idx) ==
    IF idx < st.vec.len THEN ReadAt(st, SlotAddr(st, idx)) ELSE {Read("None", 0)}

\* *self.get_mut(idx)? = item.
get_mut_write(st, idx, item, lands) ==
    IF idx < st.vec.len
    THEN IF ~Lands(st, SlotAddr(st, idx), lands)
         THEN Ret("Fault", "none", st)
         ELSE Ret("Ok", "none", Store(st, idx, item))
    ELSE Ret("None", "none", st)

\* --------------------------------------------- SpecVec (SizedVec / ArenaVec)

\* The vecs under study, as <<size_of::<T>(), to_reserve>>: ArenaVec<u8> and
\* ArenaVec<u32> over 1 KiB, ArenaVec<u8> over exactly one base block, and an
\* ArenaVec of 1 KiB elements over two pages.
VecConfigs == {<<1, KiB>>, <<4, KiB>>, <<1, 8>>, <<KiB, 2 * PageSize>>}

\* The counts the capacity methods are asked for, and the lengths of the
\* slices appended.
Counts == {0, 1, SMax - 1, SMax}

\* The indices read and written.
Indexes == {0, 1, SMax}

\* The slice of n elements appended: the values in turn.
Slice(n) == [k \in 1..n |-> (k % NumVals) + 1]

\* The vec and what surrounds it, as the methods take it.
Cur == VecState(vec, mem, rw, block, written)

\* The state after a method returned r.
Becomes(r) ==
    /\ vec' = r.st.vec
    /\ mem' = r.st.mem
    /\ rw' = r.st.rw
    /\ block' = r.st.block
    /\ written' = r.st.written

\* The call record of a call on the vec that returned r.
VecCall(op, arg, arg2, r) ==
    [NoCall EXCEPT !.op = op, !.arg = arg, !.arg2 = arg2,
                   !.res = r.res, !.err = r.err, !.oob = r.st.oob]

\* The state after ArenaVec::<T, S>::new(to_reserve) returned Ok.
InitVec ==
    /\ safety_checks \in BOOLEAN
    /\ overflow_checks \in BOOLEAN
    /\ region = NoRegion
    /\ arenas = <<>>
    /\ parents = <<>>
    /\ os = NoDrops
    /\ cps = {}
    /\ trip = NoTrip
    /\ \E c \in VecConfigs :
        /\ T_size = c[1]
        /\ vec = ArenaVec_new(c[2])
    /\ mem = <<>>
    /\ rw = {}
    /\ block = [ptr |-> DanglingPtr, size |-> 0]
    /\ written = <<>>
    /\ hist = NoHist
    /\ race = NoRace
    /\ last = NoCall
    /\ calls = 0
    /\ NoStartup

\* The state after a method called as op(arg, arg2) returned r.
Returned(op, arg, arg2, r) ==
    /\ Becomes(r)
    /\ last' = VecCall(op, arg, arg2, r)

\* The state after the push of item, called as op, returned r.
Pushed(op, item, r) ==
    /\ Returned(op, item, 0, r)
    /\ hist' = IF r.res = "Err"
               THEN [hist EXCEPT !.only_pushes = FALSE, !.only_writes = FALSE]
               ELSE [hist EXCEPT !.pushed = Append(@, item)]

\* ArenaVec::push(val) / SizedVec::push(item).
VecPush ==
    /\ Call
    /\ \E item \in Vals, os_commit \in BOOLEAN, lands \in BOOLEAN :
        Pushed("push", item, push(Cur, item, os_commit, lands))
    /\ UNCHANGED <<build, hookSide, arenaSide, race, T_size>>

\* SizedVec::try_push(item).
VecTryPush ==
    /\ Call
    /\ \E item \in Vals, os_commit \in BOOLEAN, lands \in BOOLEAN :
        Pushed("try_push", item, try_push(Cur, item, os_commit, lands))
    /\ UNCHANGED <<build, hookSide, arenaSide, race, T_size>>

\* The program makes one more call, which is no push.
Other == Call /\ hist.others < MaxOthers

\* Some call other than a push or a get_mut write was made.
Mixed ==
    [hist EXCEPT !.only_pushes = FALSE, !.only_writes = FALSE, !.others = @ + 1]

\* SizedVec::get(idx).
VecGet ==
    /\ Other
    /\ \E idx \in Indexes :
       \E r \in get(Cur, idx) :
        last' = [NoCall EXCEPT !.op = "get", !.arg = idx, !.res = r.res,
                               !.amt = r.val]
    /\ hist' = [hist EXCEPT !.others = @ + 1]
    /\ UNCHANGED <<build, hookSide, arenaSide, race, T_size, vec, mem, rw, block, written>>

\* *vec.get_mut(idx)? = item.
VecGetMut ==
    /\ Other
    /\ \E idx \in Indexes, item \in Vals, lands \in BOOLEAN :
        Returned("get_mut", idx, item,
                 get_mut_write(Cur, idx, item, lands))
    /\ hist' = [hist EXCEPT !.only_pushes = FALSE, !.others = @ + 1]
    /\ UNCHANGED <<build, hookSide, arenaSide, race, T_size>>

\* SizedVec::reserve_additional_capacity(count).
VecReserveAdditionalCapacity ==
    /\ Other
    /\ \E count \in Counts, os_commit \in BOOLEAN :
        Returned("reserve_additional_capacity", count, 0,
                 reserve_additional_capacity(Cur, count, os_commit))
    /\ hist' = Mixed
    /\ UNCHANGED <<build, hookSide, arenaSide, race, T_size>>

\* SizedVec::ensure_additional_capacity(count).
VecEnsureAdditionalCapacity ==
    /\ Other
    /\ \E count \in Counts, os_commit \in BOOLEAN :
        Returned("ensure_additional_capacity", count, 0,
                 ensure_additional_capacity(Cur, count, os_commit))
    /\ hist' = Mixed
    /\ UNCHANGED <<build, hookSide, arenaSide, race, T_size>>

\* SizedVec::reallocate_with_capacity(count).
VecReallocateWithCapacity ==
    /\ Other
    /\ \E count \in Counts, os_commit \in BOOLEAN :
        Returned("reallocate_with_capacity", count, 0,
                 reallocate_with_capacity(Cur, count, os_commit))
    /\ hist' = Mixed
    /\ UNCHANGED <<build, hookSide, arenaSide, race, T_size>>

\* ArenaVec::extend_slice(slice) / SizedVec::extend_slice(slice).
VecExtendSlice ==
    /\ Other
    /\ \E n \in Counts, os_commit \in BOOLEAN, lands \in BOOLEAN :
        Returned("extend_slice", n, 0,
                 extend_slice(Cur, Slice(n), os_commit, lands))
    /\ hist' = Mixed
    /\ UNCHANGED <<build, hookSide, arenaSide, race, T_size>>

\* SizedVec::try_extend_slice(slice).
VecTryExtendSlice ==
    /\ Other
    /\ \E n \in Counts, os_commit \in BOOLEAN, lands \in BOOLEAN :
        Returned("try_extend_slice", n, 0,
                 try_extend_slice(Cur, Slice(n), os_commit, lands))
    /\ hist' = Mixed
    /\ UNCHANGED <<build, hookSide, arenaSide, race, T_size>>

\* Writer::write(bytes) on a SizedVec<u8, S, A>.
VecWrite ==
    /\ Other
    /\ T_size = 1
    /\ \E n \in Counts, os_commit \in BOOLEAN, lands \in BOOLEAN :
        Returned("write", n, 0,
                 write(Cur, Slice(n), os_commit, lands))
    /\ hist' = Mixed
    /\ UNCHANGED <<build, hookSide, arenaSide, race, T_size>>

NextVec ==
    \/ VecPush
    \/ VecTryPush
    \/ VecGet
    \/ VecGetMut
    \/ VecReserveAdditionalCapacity
    \/ VecEnsureAdditionalCapacity
    \/ VecReallocateWithCapacity
    \/ VecExtendSlice
    \/ VecTryExtendSlice
    \/ VecWrite

SpecVec == InitVec /\ [][NextVec]_vars

\* An ArenaVec used through shared references only: push and reads.
NextPush ==
    \/ VecPush
    \/ VecGet

SpecPush == InitVec /\ [][NextPush]_vars

\* ------------------------------------------------------ properties: regions

\* C10: select(offset, len) returns Err exactly when offset + len > amount,
\* and otherwise exactly the region {base_ptr + offset, len}, also when
\* offset + len = amount and when offset = len = 0.
C10_SelectContract ==
    last.op = "select" =>
        IF last.arg + last.arg2 > region.amount
        THEN last.res = "Err"
        ELSE /\ last.res = "Ok"
             /\ last.off = region.base + last.arg
             /\ last.amt = last.arg2

\* ------------------------------------------------------- properties: arenas

\* C1: every arena, the root and those split from it, has
\* used <= committed <= reserved.amount after every call.
C1_ArenaInvariant ==
    \A a \in ArenaIds :
        /\ arenas[a].used <= arenas[a].committed
        /\ arenas[a].committed <= arenas[a].reserved.amount

\* C8: in cp = checkpoint(); allocate(X); restore_checkpoint(cp); allocate(X)
\* `used` directly after the restore is `used` as it was when cp was taken, the
\* second allocate succeeds and both allocate calls return the same offset.
C8_RoundTrip ==
    /\ trip.stage = 3 => arenas[trip.arena].used = trip.used0
    /\ trip.stage # 5
    /\ trip.stage = 4 => trip.off2 = trip.off1

\* C8's case: the four calls were made, with a block of at least one byte.
C8_Witness == trip.stage = 4 /\ trip.x > 0

\* C9: on the root arena with committed = 0 and used = 0, allocate of
\* N <= reserved.amount bytes does not fail on the range of the commit region
\* (it fails only when the OS refuses the commit), and when it succeeds
\* committed >= N.
C9_FreshAllocate ==
    [][(/\ last'.op = "allocate"
        /\ last'.arena = 1
        /\ arenas # <<>>
        /\ arenas[1].committed = 0
        /\ arenas[1].used = 0
        /\ last'.arg <= arenas[1].reserved.amount)
       => (/\ last'.res # "Panic"
           /\ last'.err # "select"
           /\ (last'.res = "Ok" => arenas'[1].committed >= last'.arg))]_vars

\* --------------------------------------------------------- properties: vecs

\* The vec and what surrounds it after the step.
CurNext == VecState(vec', mem', rw', block', written')

\* The capacity of the vec as its owner experiences it: the slots of the block
\* it holds.  (The field is vec.capacity.)
Slots == block.size \div T_size

\* The allocator refused: the OS refused the commit or the reservation is used up.
Refused(call) == call.err \in {"commit", "select"}

\* C2: 0 <= len <= capacity after construction and after every call.
C2_LenWithinCapacity == 0 <= vec.len /\ vec.len <= vec.capacity

\* C3: after pushes and get_mut writes only, no call having faulted, get(i) is
\* the value written last at i for every i < len and None for every i >= len;
\* after pushes only, len is the number of pushes and index i reads the
\* (i+1)-th value pushed.
C3_GetReturnsLastWritten ==
    hist.only_writes =>
        /\ last.res # "Fault"
        /\ ~Panicked =>
            \A i \in 0..SMax :
                IF i < vec.len
                THEN i \in DOMAIN written /\ get(Cur, i) = {Read("Some", written[i])}
                ELSE get(Cur, i) = {Read("None", 0)}
        /\ (hist.only_pushes /\ ~Panicked) =>
            /\ vec.len = Len(hist.pushed)
            /\ \A i \in 1..Len(hist.pushed) :
                get(Cur, i - 1) = {Read("Some", hist.pushed[i])}

\* C4: a push onto a full vec (len = capacity) of capacity C, 0 < C < S::MAX,
\* that the allocator serves leaves capacity >= 2*C (at most S::MAX), len one
\* larger and every element that was there as it was.
C4_PushOnFullDoubles ==
    [][(/\ last'.op \in {"push", "try_push"}
        /\ Slots > 0
        /\ vec.len = Slots
        /\ Slots < SMax
        /\ ~Refused(last'))
       => (/\ last'.res = "Ok"
           /\ vec'.capacity >= saturating_mul(Slots, 2)
           /\ vec'.len = vec.len + 1
           /\ \A i \in 0..(vec.len - 1) : get(CurNext, i) = get(Cur, i))]_vars

\* C5: a push made when len = S::MAX fails with an error (try_push returns
\* Err, push panics on unwrapping it) and leaves len as it was.
C5_PushAtMaxFails ==
    [][(last'.op \in {"push", "try_push"} /\ vec.len = SMax)
       => (/\ vec'.len = vec.len
           /\ \/ last'.res = "Err"
              \/ last'.op = "push" /\ last'.res = "Panic" /\ last'.err = "unwrap")]_vars

\* C6: write(bytes) either appends all of bytes and returns Ok, or - when the
\* remaining capacity r is smaller than bytes.len() and growing failed -
\* appends exactly the first r bytes and returns the growth error; it never
\* writes outside the vec's block.
C6_WriteAllOrPrefix ==
    [][last'.op = "write"
       => LET n == last'.arg
              r == IF Slots > vec.len THEN Slots - vec.len ELSE 0
              Appended(m) ==
                  /\ vec'.len = vec.len + m
                  /\ \A k \in 1..m :
                        get(CurNext, vec.len + k - 1) = {Read("Some", Slice(n)[k])}
          IN /\ ~last'.oob
             /\ \/ last'.res = "Ok" /\ Appended(n)
                \/ last'.res = "Err" /\ r < n /\ Appended(r)]_vars

\* C7: on an ArenaVec<u32> made by new(1 KiB), each of the first five calls of
\* push is accepted unless the OS refuses the commit, and after them len is
\* their number and index i reads the (i+1)-th value pushed.
C7_FivePushes ==
    (/\ T_size = 4
     /\ vec.alloc.reserved.amount = KiB
     /\ hist.only_pushes
     /\ Len(hist.pushed) <= 5
     /\ last.err # "commit")
    => /\ last.res \in {"none", "Ok", "Some", "None"}
       /\ vec.len = Len(hist.pushed)
       /\ \A i \in 1..Len(hist.pushed) :
            get(Cur, i - 1) = {Read("Some", hist.pushed[i])}

\* C7's case: the fifth push on the ArenaVec<u32> over 1 KiB returned.
C7_Witness ==
    /\ T_size = 4
    /\ vec.alloc.reserved.amount = KiB
    /\ hist.only_pushes
    /\ Len(hist.pushed) = 5
    /\ last.op = "push"
    /\ last.res = "Ok"

\* ------------------------------------------------ properties: split arenas

\* The byte ranges [a, a + n) and [b, b + m) have no byte in common.
Disjoint(a, n, b, m) == n = 0 \/ m = 0 \/ a + n <= b \/ b + m <= a

\* The arenas split from arena a so far.
Children(a) == {c \in ArenaIds : parents[c] = a}

\* C11: once split has returned a child, no later allocate of the parent
\* returns bytes that lie inside the child's reservation: the block of every
\* accepted allocate call is disjoint from the reserved region of every arena
\* split from that arena before the call.
C11_SplitDisjoint ==
    [][(last'.op = "allocate" /\ last'.res = "Ok")
        => \A c \in Children(last'.arena) :
              Disjoint(last'.off, last'.arg,
                       arenas[c].reserved.base, arenas[c].reserved.amount)]_vars

\* C12: new_preallocate(to_reserve, to_commit) returns Err(Reserve) exactly
\* when the OS refuses the reservation, Err(PreallocatedMemoryTooLarge)
\* exactly when the reservation succeeds and to_commit > to_reserve,
\* Err(Commit) exactly when both pass and the OS refuses the commit, and in
\* every other case an arena with reserved.amount == to_reserve,
\* committed == to_commit and used == 0.
C12_PreallocateErrors ==
    last.op = "new_preallocate" =>
        /\ (last.res = "Err" /\ last.err = "Reserve") <=> ~last.os_reserve
        /\ (last.res = "Err" /\ last.err = "PreallocatedMemoryTooLarge")
              <=> (last.os_reserve /\ last.arg2 > last.arg)
        /\ (last.res = "Err" /\ last.err = "Commit")
              <=> (last.os_reserve /\ last.arg2 <= last.arg /\ ~last.os_commit)
        /\ (last.os_reserve /\ last.arg2 <= last.arg /\ last.os_commit)
              => /\ last.res = "Ok"
                 /\ Len(arenas) = 1
                 /\ arenas[1].reserved.amount = last.arg
                 /\ arenas[1].committed = last.arg2
                 /\ arenas[1].used = 0

\* --------------------------------------- properties: SizedVec's capacity

\* C13: reallocate_with_capacity(n) with n below the capacity (the slots of
\* the block the vec holds) returns Err(CannotShrink) exactly when n < len,
\* and returns Ok for every n with len <= n (n == len included) unless the
\* allocator refuses.
C13_ShrinkBelowLen ==
    [][(last'.op = "reallocate_with_capacity" /\ last'.arg < Slots)
        => /\ (last'.res = "Err" /\ last'.err = "CannotShrink")
                 <=> last'.arg < vec.len
           /\ (vec.len <= last'.arg /\ last'.err # "ReallocationFailed")
                 => last'.res = "Ok"]_vars

\* The call just made went to the vec's allocator: the arena changed, or it
\* refused the request.
AllocatorCalled == vec'.alloc # vec.alloc \/ last'.err = "ReallocationFailed"

\* C14: ensure_additional_capacity(n) calls the allocator only when
\* remaining_capacity() < n before the call, changes nothing when the
\* headroom suffices, and whenever it returns Ok the vec has
\* remaining_capacity() >= n afterwards.
C14_EnsureHeadroom ==
    [][last'.op = "ensure_additional_capacity"
        => /\ AllocatorCalled => remaining_capacity(Cur) < last'.arg
           /\ remaining_capacity(Cur) >= last'.arg
                 => (last'.res = "Ok" /\ CurNext = Cur)
           /\ last'.res = "Ok" => remaining_capacity(CurNext) >= last'.arg]_vars

\* The elements at the indices [0, len) of the vec in state st, in order.
Elements(st) == [i \in 1..st.vec.len |-> Load(st, SlotAddr(st, i - 1))]

\* C15: reserve_additional_capacity(n) returns Err(MaxPossibleCapacity),
\* with no allocator call, exactly when capacity + n exceeds S::MAX; when it
\* returns Ok, capacity() is the previous capacity plus n, and len and the
\* elements at [0, len) are as before.
C15_ReserveAddsCapacity ==
    [][last'.op = "reserve_additional_capacity"
        => /\ (last'.res = "Err" /\ last'.err = "MaxPossibleCapacity")
                 <=> vec.capacity + last'.arg > SMax
           /\ last'.err = "MaxPossibleCapacity" => ~AllocatorCalled
           /\ last'.res = "Ok"
                 => /\ vec'.capacity = vec.capacity + last'.arg
                    /\ vec'.len = vec.len
                    /\ Elements(CurNext) = Elements(Cur)]_vars

\* ------------------------------------ properties: SizedVec's elements

\* C16: try_extend_slice(s) / extend_slice(s) grow the vec through its
\* allocator before a single element is copied when the remaining capacity
\* is smaller than s.len(); when they return Ok, len has grown by s.len(),
\* the elements at [old len, old len + s.len()) are those of s in order, and
\* the elements at [0, old len) are as before.
C16_ExtendSlice ==
    [][last'.op \in {"extend_slice", "try_extend_slice"}
        => /\ (remaining_capacity(Cur) < last'.arg /\ last'.res \in {"Ok", "Fault"})
                 => AllocatorCalled
           /\ last'.res = "Ok"
                 => /\ vec'.len = vec.len + last'.arg
                    /\ Elements(CurNext) = Elements(Cur) \o Slice(last'.arg)]_vars

\* ------------------------------------------- SpecRange (range indexing)

\* What indexing by a range returns: Some(slice) with the index of the
\* slice's first element and its length, None, or a panic.
Sliced(res, start, count) == [res |-> res, start |-> start, count |-> count]

\* (end - start) on S, as the length of the slice plus `more`.
slice_from_raw_parts(start, end, more) ==
    IF start > end /\ overflow_checks
    THEN Sliced("Panic", 0, 0)
    ELSE Sliced("Some", start, S_wrap(end - start) + more)

\* impl SizedVecIndexOp for Range<S>: index / index_unchecked.
Range_index(st, start, end) ==
    IF end < st.vec.len
    THEN slice_from_raw_parts(start, end, 0)
    ELSE Sliced("None", 0, 0)

\* impl SizedVecIndexOp for RangeInclusive<S>: index / index_unchecked.
RangeInclusive_index(st, start, end) ==
    IF end < st.vec.len
    THEN slice_from_raw_parts(start, end, 1)
    ELSE Sliced("None", 0, 0)

\* impl SizedVecIndexOp for RangeFrom<S>: index / index_unchecked.
RangeFrom_index(st, start) ==
    IF start < st.vec.len
    THEN Sliced("Some", start, st.vec.len - start)
    ELSE Sliced("None", 0, 0)

\* impl SizedVecIndexOp for RangeTo<S>: index / index_unchecked.
RangeTo_index(st, end) ==
    IF end < st.vec.len
    THEN Sliced("Some", 0, end)
    ELSE Sliced("None", 0, 0)

\* impl SizedVecIndexOp for RangeToInclusive<S>: index / index_unchecked.
RangeToInclusive_index(st, end) ==
    IF end < st.vec.len
    THEN Sliced("Some", 0, end + 1)
    ELSE Sliced("None", 0, 0)

\* impl SizedVecIndexOp for RangeFull: index.
RangeFull_index(st) == Sliced("Some", 0, st.vec.len)

\* The range shapes of core::ops.
Shapes == {"a..b", "a..=b", "a..", "..b", "..=b", ".."}

\* SizedVec::get_range / get_range_mut: range.index(self).
get_range(st, shape, a, b) ==
    CASE shape = "a..b" -> Range_index(st, a, b)
      [] shape = "a..=b" -> RangeInclusive_index(st, a, b)
      [] shape = "a.." -> RangeFrom_index(st, a)
      [] shape = "..b" -> RangeTo_index(st, b)
      [] shape = "..=b" -> RangeToInclusive_index(st, b)
      [] shape = ".." -> RangeFull_index(st)

\* The bounds the ranges are built from.
RangeEnds == 0..3

\* The call record of get_range(range) that returned r.
RangeCall(shape, a, b, r) ==
    [NoCall EXCEPT !.op = "get_range", !.shape = shape, !.arg = a, !.arg2 = b,
                   !.res = r.res, !.off = r.start, !.amt = r.count]

\* SizedVec::get_range(range), for a range of each shape.
VecGetRange ==
    /\ Other
    /\ \E shape \in Shapes, a \in RangeEnds, b \in RangeEnds :
        last' = RangeCall(shape, a, b, get_range(Cur, shape, a, b))
    /\ hist' = [hist EXCEPT !.others = @ + 1]
    /\ UNCHANGED <<build, hookSide, arenaSide, race, T_size, vec, mem, rw, block, written>>

\* An ArenaVec that is pushed to and indexed by ranges.
NextRange ==
    \/ VecPush
    \/ VecGetRange

SpecRange == InitVec /\ [][NextRange]_vars

\* ------------------------------------------- properties: range indexing

\* The indices a range of the given shape denotes in a vec of len elements.
Denoted(shape, a, b, len) ==
    CASE shape = "a..b" -> a..(b - 1)
      [] shape = "a..=b" -> a..b
      [] shape = "a.." -> a..(len - 1)
      [] shape = "..b" -> 0..(b - 1)
      [] shape = "..=b" -> 0..b
      [] shape = ".." -> 0..(len - 1)

\* The indices the range of the last get_range call denotes.
Asked == Denoted(last.shape, last.arg, last.arg2, vec.len)

\* C17: for a range of any shape that denotes at least one index, checked
\* get_range returns a slice exactly when every index the range denotes lies
\* in [0, len) (a..len and ..len included); the slice then starts at the
\* first of those indices and holds as many elements as the range denotes,
\* so it never extends past len; otherwise get_range returns None.
C17_RangeWithinLen ==
    (last.op = "get_range" /\ Asked # {})
        => IF Asked \subseteq 0..(vec.len - 1)
           THEN /\ last.res = "Some"
                /\ last.off = CHOOSE i \in Asked : \A j \in Asked : i <= j
                /\ last.amt = Cardinality(Asked)
                /\ last.off + last.amt <= vec.len
           ELSE last.res = "None"

\* --------------------------------------------------- SpecDrop (Drop)

\* impl Drop for SizedVec, the calls it makes: drop_in_place for each item of
\* as_slice_mut(), then self.alloc.deallocate(base_ptr, layout(self.len)).
drop(st) ==
    [i \in 1..st.vec.len |-> Step("drop_in_place", i - 1, SlotAddr(st, i - 1), T_size)]
        \o <<Step("deallocate", 0, st.vec.base_ptr, layout(st.vec.len))>>

\* The vec goes out of scope.
VecDrop ==
    /\ Call
    /\ last' = [NoCall EXCEPT !.op = "drop", !.res = "Ok", !.steps = drop(Cur)]
    /\ UNCHANGED <<build, hookSide, arenaSide, vecSide>>

\* An ArenaVec that is pushed to and then dropped.
NextDrop ==
    \/ VecPush
    \/ VecDrop

SpecDrop == InitVec /\ [][NextDrop]_vars

\* ------------------------------------------------- properties: Drop

\* The positions in the last call's steps of the calls of the given kind.
StepsOf(call) == {k \in 1..Len(last.steps) : last.steps[k].call = call}

\* C18: dropping a SizedVec runs the destructor of every element at [0, len)
\* exactly once, and only after them calls the allocator's deallocate, once,
\* with the pointer and the layout of the block as it was allocated.
C18_DropThenFree ==
    last.op = "drop" =>
        /\ \A i \in 0..(vec.len - 1) :
              Cardinality({k \in StepsOf("drop_in_place") : last.steps[k].idx = i}) = 1
        /\ \A k \in StepsOf("drop_in_place") : last.steps[k].idx \in 0..(vec.len - 1)
        /\ StepsOf("deallocate") = {Len(last.steps)}
        /\ last.steps[Len(last.steps)].ptr = block.ptr
        /\ last.steps[Len(last.steps)].size = block.size

\* ---------------------------------- SpecShared (ArenaVec through &self)

\* An ArenaVec used only through the methods it offers on a shared reference.
NextShared ==
    \/ VecPush
    \/ VecExtendSlice

SpecShared == InitVec /\ [][NextShared]_vars

\* ----------------------------------------- properties: ArenaVec's address

\* C19: the elements of an ArenaVec never move: once the vec has obtained
\* its first block, no push and no extend_slice that returns changes its
\* base pointer.
C19_BasePointerStays ==
    [][(last'.op \in {"push", "extend_slice"} /\ last'.res = "Ok" /\ block.size > 0)
        => vec'.base_ptr = vec.base_ptr]_vars

\* ------------------------------ SpecRace (pushes that are not serialized)

\* The value pusher p pushes: one no serialized push carries.
ItemOf(p) == NumVals + p

\* Pusher p goes on to the statement `to` of try_push.
Goes(p, to) == [race EXCEPT !.pc[p] = to]

\* No push that is not serialized has begun.
Serialized == \A p \in Pushers : race.pc[p] = "idle"

\* The statement pusher p goes to after `if self.len == self.capacity`
\* returned g, with len0 kept from the first pusher that began.
Begun(p, g) ==
    [race EXCEPT !.pc[p] = IF g.res = "Ok" THEN "ptr" ELSE "done",
                 !.len0 = IF Serialized THEN vec.len ELSE @]

\* ArenaVec::push on a shared reference, one call at a time.
SerializedPush == Serialized /\ VecPush

\* try_push by pusher p, `if self.len == self.capacity { ... }`: the block is
\* obtained when the pusher finds len equal to capacity.
RaceGrow(p, os_commit) ==
    /\ Call
    /\ race.pc[p] = "idle"
    /\ Returned("push", ItemOf(p), p, unwrap(try_push_grow(Cur, os_commit)))
    /\ race' = Begun(p, try_push_grow(Cur, os_commit))
    /\ hist' = [hist EXCEPT !.only_pushes = FALSE, !.only_writes = FALSE]
    /\ UNCHANGED <<build, hookSide, arenaSide, T_size>>

\* try_push by pusher p, `self.base_ptr.add(self.len.as_usize())`.
RacePtr(p) ==
    /\ ~Panicked
    /\ race.pc[p] = "ptr"
    /\ race' = [Goes(p, "load") EXCEPT !.ptr[p] = SlotAddr(Cur, vec.len)]
    /\ UNCHANGED <<build, hookSide, arenaSide, T_size, vec, mem, rw, block, written, hist,
                   last, calls>>

\* try_push by pusher p, `self.len += S::ONE`: len is loaded.
RaceLoad(p) ==
    /\ ~Panicked
    /\ race.pc[p] = "load"
    /\ race' = [Goes(p, "store") EXCEPT !.tmp[p] = vec.len]
    /\ UNCHANGED <<build, hookSide, arenaSide, T_size, vec, mem, rw, block, written, hist,
                   last, calls>>

\* try_push by pusher p, `self.len += S::ONE`: the sum is stored.
RaceStore(p) ==
    /\ ~Panicked
    /\ race.pc[p] = "store"
    /\ IF race.tmp[p] = SMax /\ overflow_checks
       THEN /\ last' = [last EXCEPT !.res = "Panic", !.err = "overflow"]
            /\ vec' = vec
       ELSE /\ last' = last
            /\ vec' = [vec EXCEPT !.len = S_wrap(race.tmp[p] + 1)]
    /\ race' = Goes(p, "write")
    /\ UNCHANGED <<build, hookSide, arenaSide, T_size, mem, rw, block, written, hist, calls>>

\* try_push by pusher p, `ptr.write(item)`.
RaceWrite(p, lands) ==
    /\ ~Panicked
    /\ race.pc[p] = "write"
    /\ IF Lands(Cur, race.ptr[p], lands)
       THEN /\ mem' = (race.ptr[p] :> ItemOf(p)) @@ mem
            /\ last' = last
       ELSE /\ mem' = mem
            /\ last' = [last EXCEPT !.res = "Fault"]
    /\ race' = Goes(p, "done")
    /\ UNCHANGED <<build, hookSide, arenaSide, T_size, vec, rw, block, written, hist, calls>>

\* Pushes one at a time, then one push by each pusher, their statements
\* interleaved.
NextRace ==
    \/ SerializedPush
    \/ \E p \in Pushers, os_commit \in BOOLEAN : RaceGrow(p, os_commit)
    \/ \E p \in Pushers : RacePtr(p)
    \/ \E p \in Pushers : RaceLoad(p)
    \/ \E p \in Pushers : RaceStore(p)
    \/ \E p \in Pushers, lands \in BOOLEAN : RaceWrite(p, lands)

SpecRace == InitVec /\ [][NextRace]_vars

\* ------------------------------------- properties: pushes not serialized

\* Every pusher's push has returned.
AllReturned == ~Panicked /\ \A p \in Pushers : race.pc[p] = "done"

\* The pushes of the pushers have all returned, and an element was
\* overwritten (a value pushed is at no index) or len grew by less than
\* their number.
LostPush ==
    /\ AllReturned
    /\ \/ vec.len < race.len0 + Cardinality(Pushers)
       \/ \E p \in Pushers : \A i \in 1..vec.len : Elements(Cur)[i] # ItemOf(p)

\* C20, the serialized half: when every push runs as one step, the pushes
\* made so far all went through, len is their number and index i reads the
\* (i+1)-th value pushed.
C20_SerializedPushes ==
    hist.only_pushes =>
        /\ last.res # "Fault"
        /\ ~Panicked =>
            /\ vec.len = Len(hist.pushed)
            /\ \A i \in 1..Len(hist.pushed) :
                 get(Cur, i - 1) = {Read("Some", hist.pushed[i])}

\* ------------------------------------------------ SpecString (ArenaString)

\* The chars pushed, as code points: one of each length of UTF-8 encoding.
Chars == {97, 233, 8364, 128512}

\* char::len_utf8.
len_utf8(c) == IF c < 128 THEN 1 ELSE IF c < 2048 THEN 2 ELSE IF c < 65536 THEN 3 ELSE 4

\* The UTF-8 encoding of c.
utf8(c) ==
    IF c < 128 THEN <<c>>
    ELSE IF c < 2048 THEN <<192 + (c \div 64), 128 + (c % 64)>>
    ELSE IF c < 65536
    THEN <<224 + (c \div 4096), 128 + ((c \div 64) % 64), 128 + (c % 64)>>
    ELSE <<240 + (c \div 262144), 128 + ((c \div 4096) % 64),
           128 + ((c \div 64) % 64), 128 + (c % 64)>>

\* `let mut buf = [0; 4]; c.encode_utf8(&mut buf);`: buf afterwards.
encode_utf8(c) == utf8(c) \o [k \in 1..(4 - len_utf8(c)) |-> 0]

RECURSIVE as_bytes(_)
\* str::as_bytes for the str made of the chars s.
as_bytes(s) == IF s = <<>> THEN <<>> ELSE utf8(Head(s)) \o as_bytes(Tail(s))

\* The strs pushed, each as its chars.
Strs == {<<>>, <<97>>, <<233, 97>>}

\* The number of bytes the UTF-8 sequence that starts with byte b takes, 0
\* if no sequence starts with it.
SequenceLen(b) ==
    IF b < 128 THEN 1
    ELSE IF b >= 194 /\ b <= 223 THEN 2
    ELSE IF b >= 224 /\ b <= 239 THEN 3
    ELSE IF b >= 240 /\ b <= 244 THEN 4
    ELSE 0

RECURSIVE IsUtf8(_)
\* The bytes are valid UTF-8: what str::from_utf8 accepts.
IsUtf8(bytes) ==
    \/ bytes = <<>>
    \/ /\ SequenceLen(bytes[1]) \in 1..Len(bytes)
       /\ \A k \in 2..SequenceLen(bytes[1]) : bytes[k] >= 128 /\ bytes[k] <= 191
       /\ IsUtf8(SubSeq(bytes, SequenceLen(bytes[1]) + 1, Len(bytes)))

\* ArenaString::as_str: str::from_utf8_unchecked(&self.0), its bytes.
as_str(st) == Elements(st)

\* The state after ArenaString::new(to_reserve) returned Ok.
InitString ==
    /\ InitVec
    /\ T_size = 1

\* The state after a push of the given bytes, called as op on the str or char
\* encoded as `meant`, returned r.
StrPushed(op, meant, r) ==
    /\ Becomes(r)
    /\ last' = [VecCall(op, Len(meant), 0, r) EXCEPT !.bytes = meant]
    /\ hist' = [hist EXCEPT !.pushed = @ \o meant]

\* ArenaString::push_char(c).
StrPushChar ==
    /\ Call
    /\ \E c \in Chars, os_commit \in BOOLEAN, lands \in BOOLEAN :
        StrPushed("push_char", utf8(c),
                  extend_slice(Cur, encode_utf8(c), os_commit, lands))
    /\ UNCHANGED <<build, hookSide, arenaSide, race, T_size>>

\* ArenaString::push_str(s).
StrPushStr ==
    /\ Call
    /\ \E s \in Strs, os_commit \in BOOLEAN, lands \in BOOLEAN :
        StrPushed("push_str", as_bytes(s),
                  extend_slice(Cur, as_bytes(s), os_commit, lands))
    /\ UNCHANGED <<build, hookSide, arenaSide, race, T_size>>

NextString ==
    \/ StrPushChar
    \/ StrPushStr

SpecString == InitString /\ [][NextString]_vars

\* ------------------------------------------- properties: ArenaString

\* C21: after any sequence of push_str and push_char calls that returned,
\* as_str() is valid UTF-8 and is the concatenation of the strs and chars
\* pushed, in call order; a push_char(c) lengthens the string by exactly the
\* number of bytes of c's UTF-8 encoding.
C21_StringIsConcatenation ==
    ~Panicked =>
        /\ IsUtf8(as_str(Cur))
        /\ as_str(Cur) = hist.pushed
        /\ last.op = "push_char" => vec.len = Len(hist.pushed)

\* ------------------------------------------- SpecSolve (Event::solve, hooks)

\* Hooks registered on the startup event at most.
MaxHooks == 3
\* Constraints the registered hooks declare at most, all of them together.
MaxLinks == 3

\* The HookId values of the hook! statics of the program.  solve compares
\* ids for equality only, so the static registered k-th is given the id k.
HookIds == 1..MaxHooks

\* Constraint::Before(id), Constraint::After(id).
Before(id) == [order |-> "Before", id |-> id]
After(id) == [order |-> "After", id |-> id]
Constraint == {Before(id) : id \in HookIds} \cup {After(id) : id \in HookIds}

\* Hook { func, id, constraints }: each hook! static has a function of its own.
Hook(id, constraints) ==
    [func |-> <<"fn", id>>, id |-> id, constraints |-> constraints]

\* The slices of at most n constraints.
Slices(n) == UNION {[1..k -> Constraint] : k \in 0..n}

\* XStat::push(stat): stat goes behind head, or is the first entry.
XStat_push(self, stat) ==
    IF self.head # 0
    THEN [self EXCEPT !.next[self.head] = stat, !.head = stat]
    ELSE [self EXCEPT !.base = stat, !.head = stat]

\* XStatIter::next until it returns None, from the node the iterator is at.
RECURSIVE XStatIter(_, _)
XStatIter(self, node) ==
    IF node = 0
    THEN <<>>
    ELSE <<self.value[node]>> \o XStatIter(self, self.next[node])

\* XStat::entries(), collected.
entries(self) == XStatIter(self, self.base)

\* The constraints the hooks of a list declare, counted.
RECURSIVE Declared(_)
Declared(hooks) ==
    IF hooks = <<>> THEN 0
    ELSE Len(Head(hooks).constraints) + Declared(Tail(hooks))

\* solve's locals are SizedVec<_, u16, OsAllocator>: their one block is a
\* mapping of whole pages, which holds every element pushed here.  They are
\* sequences below, and get_unchecked(idx) is the element at idx + 1.
get_unchecked(v, idx) == v[idx + 1]

\* stable_idx_map after the first loop of solve: a later insert of the same
\* id replaces the earlier one.
stable_idx_map(hooks_stable) ==
    [id \in {hooks_stable[k].id : k \in DOMAIN hooks_stable} |->
        CHOOSE idx \in 0..(Len(hooks_stable) - 1) :
            /\ get_unchecked(hooks_stable, idx).id = id
            /\ \A later \in (idx + 1)..(Len(hooks_stable) - 1) :
                get_unchecked(hooks_stable, later).id # id]

\* The link one constraint of the hook at idx adds: (before, after).
Link(idx, constraint, map) ==
    IF constraint.order = "Before"
    THEN <<idx, map[constraint.id]>>
    ELSE <<map[constraint.id], idx>>

\* links after the second loop of solve, from the hook at idx on.
RECURSIVE Links(_, _, _)
Links(hooks_stable, map, idx) ==
    IF idx >= Len(hooks_stable)
    THEN <<>>
    ELSE LET hook == get_unchecked(hooks_stable, idx)
         IN [k \in 1..Len(hook.constraints) |-> Link(idx, hook.constraints[k], map)]
            \o Links(hooks_stable, map, idx + 1)

\* stable_idx_map.get(&other_hook_id) is Some for every constraint.
Resolvable(hooks_stable, map) ==
    \A k \in DOMAIN hooks_stable :
        \A c \in DOMAIN hooks_stable[k].constraints :
            hooks_stable[k].constraints[c].id \in DOMAIN map

\* The links the inner loop of 'outer finds with before > after.
Unordered(links, hooks_real) ==
    {k \in DOMAIN links :
        get_unchecked(hooks_real, links[k][1]) > get_unchecked(hooks_real, links[k][2])}

\* A pass that leaves hooks_real as it was.
Reorder_nothing(hooks_real, before, after, stable_after) == hooks_real

\* The body of `if before > after`: the pass over hooks_real, then the store
\* to hooks_real[stable_after].
Reorder(hooks_real, before, after, stable_after) ==
    [s \in DOMAIN hooks_real |->
        IF s = stable_after + 1 THEN before
        ELSE IF hooks_real[s] > after THEN hooks_real[s] - 1
        ELSE IF hooks_real[s] >= before THEN hooks_real[s] + 1
        ELSE hooks_real[s]]

\* One pass of the inner loop that found the link at k out of order.
Reordered(links, hooks_real, k) ==
    Reorder(hooks_real, get_unchecked(hooks_real, links[k][1]),
            get_unchecked(hooks_real, links[k][2]), links[k][2])

\* The last loop of solve: output.
Output(hooks_stable, hooks_real) ==
    [s \in DOMAIN hooks_real |-> get_unchecked(hooks_stable, hooks_real[s]).func]

\* One ini function of entrypoint runs: the preexec of a hook! static, which
\* pushes its HOOK on the event.
HookRegister ==
    /\ solving.pc = "ini"
    /\ Len(event.value) < MaxHooks
    /\ \E constraints \in Slices(MaxLinks - Declared(event.value)) :
        event' = XStat_push([event EXCEPT !.next = Append(@, 0),
                                          !.value = Append(@, Hook(Len(event.value) + 1,
                                                                   constraints))],
                            Len(event.value) + 1)
    /\ UNCHANGED <<build, arenaSide, vecSide, solving, last, calls>>

\* entrypoint calls EVENT.solve(), which runs up to 'outer.
SolveStarted(hooks_stable, map) ==
    IF Resolvable(hooks_stable, map)
    THEN [solving EXCEPT !.pc = "outer",
                         !.hooks_stable = hooks_stable,
                         !.links = Links(hooks_stable, map, 0),
                         !.hooks_real = [s \in DOMAIN hooks_stable |-> s - 1]]
    ELSE [solving EXCEPT !.pc = "unwound", !.hooks_stable = hooks_stable,
                         !.res = "Panic"]

SolveBegin ==
    /\ solving.pc = "ini"
    /\ solving' = SolveStarted(entries(event), stable_idx_map(entries(event)))
    /\ UNCHANGED <<build, arenaSide, vecSide, event, last, calls>>

\* One iteration of 'outer: the first link out of order is reordered and the
\* loop starts over, or there is none and solve returns Ok(output).
SolveStep ==
    /\ solving.pc = "outer"
    /\ LET bad == Unordered(solving.links, solving.hooks_real)
       IN solving' =
            IF bad = {}
            THEN [solving EXCEPT !.pc = "solved", !.res = "Ok",
                                 !.output = Output(solving.hooks_stable, solving.hooks_real)]
            ELSE [solving EXCEPT !.hooks_real =
                    Reordered(solving.links, solving.hooks_real,
                              CHOOSE k \in bad : \A j \in bad : k <= j)]
    /\ UNCHANGED <<build, arenaSide, vecSide, event, last, calls>>

\* The rest of entrypoint once solve returned: Err leaves with
\* UnsolvableStartupEvent, Ok calls every function of the vector in order.
EntrypointRun ==
    /\ solving.pc = "solved"
    /\ solving' =
        IF solving.res = "Ok"
        THEN [solving EXCEPT !.pc = "exit", !.ran = solving.output, !.exit = "Ok"]
        ELSE [solving EXCEPT !.pc = "exit", !.exit = "UnsolvableStartupEvent"]
    /\ UNCHANGED <<build, arenaSide, vecSide, event, last, calls>>

NextSolve ==
    \/ HookRegister
    \/ SolveBegin
    \/ SolveStep
    \/ EntrypointRun

\* entrypoint is entered.  solve has no arithmetic that can leave u16 and
\* every index it hands to get_unchecked is below len, so the build switches
\* change nothing in it: one build is followed.
InitSolve == InitArena /\ safety_checks /\ ~overflow_checks

SpecSolve == InitSolve /\ [][NextSolve]_vars

\* 'outer is not left undone for ever: the loop of solve is scheduled until
\* it breaks.
SpecSolveFair == SpecSolve /\ WF_vars(SolveStep)

\* The hook with stable index `from` reaches the hook `to` along links.
RECURSIVE Reaches(_, _, _, _)
Reaches(links, from, to, n) ==
    IF n = 0 THEN FALSE
    ELSE \E k \in DOMAIN links :
            /\ links[k][1] = from
            /\ links[k][2] = to \/ Reaches(links, links[k][2], to, n - 1)

\* The constraints can be met: no hook has to go before itself.
Satisfiable ==
    \A s \in 0..(Len(solving.hooks_stable) - 1) :
        ~Reaches(solving.links, s, s, Len(solving.links))

\* The places of the vector returned that hold the function of the hook with
\* stable index s.
Places(s) ==
    {k \in DOMAIN solving.output :
        solving.output[k] = get_unchecked(solving.hooks_stable, s).func}

\* solve returned Ok.
Solved == solving.pc \in {"solved", "exit"} /\ solving.res = "Ok"

\* C22: when the constraints of the registered hooks can be met, the vector
\* solve returns holds each hook that declares Before(h) earlier than h and
\* each hook that declares After(h) later than h: for every link
\* (before, after) both are in the vector and before comes first.
C22_OrderMeetsConstraints ==
    Solved /\ Satisfiable =>
        \A k \in DOMAIN solving.links :
            /\ Places(solving.links[k][1]) # {}
            /\ Places(solving.links[k][2]) # {}
            /\ \A b \in Places(solving.links[k][1]), a \in Places(solving.links[k][2]) :
                b < a

\* A hook is constrained to go before or after itself.
Recursive ==
    \E k \in DOMAIN solving.links : solving.links[k][1] = solving.links[k][2]

\* Two hooks are constrained to go both before and after each other.
Cyclical ==
    \E k, j \in DOMAIN solving.links :
        /\ solving.links[k][1] # solving.links[k][2]
        /\ solving.links[k][1] = solving.links[j][2]
        /\ solving.links[k][2] = solving.links[j][1]

\* What solve may return then.
Refusals ==
    (IF Recursive THEN {"Recursive"} ELSE {}) \cup (IF Cyclical THEN {"Cyclical"} ELSE {})

\* C23: when a hook is constrained to go before or after itself solve returns
\* Err(Recursive), when two hooks are constrained to go both before and after
\* each other it returns Err(Cyclical), and entrypoint then returns
\* UnsolvableStartupEvent and has run no hook.
C23_UnsolvableIsRefused ==
    Recursive \/ Cyclical =>
        /\ solving.pc \in {"solved", "exit"} => solving.res \in Refusals
        /\ solving.pc = "exit" =>
            solving.exit = "UnsolvableStartupEvent" /\ solving.ran = <<>>

\* The positions 0..n-1 of n registered hooks.
Positions == 0..(Len(solving.hooks_stable) - 1)

\* hooks_real gives every registered hook a position and no position twice.
Bijection(hooks_real) ==
    /\ \A s \in DOMAIN hooks_real : hooks_real[s] \in Positions
    /\ \A s, t \in DOMAIN hooks_real : hooks_real[s] = hooks_real[t] => s = t

\* C29: in solve, hooks_real is a bijection between the registered hooks and
\* the positions 0..n-1 after every reordering step, and the vector returned
\* holds the function of every registered hook exactly once.
C29_HooksRealBijection ==
    /\ solving.pc \in {"outer", "solved", "exit"} => Bijection(solving.hooks_real)
    /\ Solved =>
        /\ Len(solving.output) = Len(entries(event))
        /\ \A s \in Positions : Cardinality(Places(s)) = 1

\* A reordering step was made and 'outer was left.
C30_Witness ==
    /\ Solved
    /\ Satisfiable
    /\ solving.hooks_real # [s \in DOMAIN solving.hooks_real |-> s - 1]

\* C30: when the constraints of the registered hooks contain no cycle, the
\* reordering loop of solve ends: 'outer reaches a pass in which no link has
\* before > after and solve returns.
C30_LoopTerminates ==
    (solving.pc = "outer" /\ Satisfiable) ~>
        (solving.pc = "solved" /\ Unordered(solving.links, solving.hooks_real) = {})

\* ------------------------------------------- properties: allocate's commits

\* What allocate(layout) with layout.size() = needed is to do on an arena
\* that is `old` before the call and `new` after it, call being its record.
AllocateAsDocumented(old, new, call) ==
    /\ IF old.committed - old.used >= call.arg
       THEN /\ call.steps = <<>>
            /\ new.committed = old.committed
       ELSE /\ call.steps =
                <<Step("commit", 0, old.reserved.base + old.committed,
                       call.arg - (old.committed - old.used))>>
            /\ new.committed = old.committed + (call.arg - (old.committed - old.used))
    /\ call.off = old.reserved.base + old.used
    /\ new.used = old.used + call.arg

\* allocate committed a shortfall smaller than the block it returned.
C24_Witness ==
    /\ last.op = "allocate"
    /\ last.res = "Ok"
    /\ last.steps # <<>>
    /\ last.steps[1].size < last.arg

\* C24: an allocate(layout) that returns a block, with needed = layout.size():
\* when committed - used >= needed it issues no commit and leaves committed
\* as it was; otherwise it commits exactly needed - (committed - used) bytes
\* starting at offset committed and advances committed by that amount; either
\* way the block is [used, used + needed) from the reservation base and used
\* advances by needed.
C24_AllocateCommitsShortfall ==
    [][(last'.op = "allocate" /\ calls' = calls + 1 /\ last'.res = "Ok")
       => AllocateAsDocumented(arenas[last'.arena], arenas'[last'.arena], last')]_vars

\* The last call was an allocate that returned AllocError.
AllocError == last.op = "allocate" /\ last.res = "Err"

\* allocate returned AllocError on an arena that had handed out a block.
C26_Witness ==
    /\ AllocError
    /\ last.err \in {"select", "commit"}
    /\ arenas[last.arena].used > 0

\* C26: an allocate that returns AllocError, because the shortfall to commit
\* lies outside the reservation or because the OS refuses the commit, leaves
\* committed and used as they were, and the next allocate on that arena that
\* returns a block returns it at the offset `used` had before the failed call.
C26_FailedAllocateChangesNothing ==
    [][/\ (last'.op = "allocate" /\ calls' = calls + 1 /\ last'.res = "Err")
            => /\ last'.err \in {"select", "commit"}
               /\ arenas' = arenas
       /\ (AllocError /\ last'.op = "allocate" /\ calls' = calls + 1
            /\ last'.arena = last.arena /\ last'.res = "Ok")
            => last'.off = arenas[last.arena].reserved.base + arenas[last.arena].used]_vars

\* ------------------------------------------- properties: writes stay inside

\* C25: every element write made by push / try_push and by
\* extend_slice_unchecked (through extend_slice, try_extend_slice and
\* Writer::write) goes to a slot inside the block the vec obtained last from
\* its allocator: none goes to the dangling pointer of a vec that holds no
\* block, none past the end of the block.
C25_WritesInsideBlock ==
    last.op \in {"push", "try_push", "extend_slice", "try_extend_slice", "write"}
        => ~last.oob

\* ------------------------------------------ SpecArenaDrop (arenas dropped)

\* What a drop did: the arena is gone and the OS was handed the regions.
Released(a, uncommitted, unreserved) ==
    [os EXCEPT !.dropped = @ \cup {a},
               !.by = Append(@, a),
               !.uncommitted = Append(@, uncommitted),
               !.unreserved = Append(@, unreserved)]

\* impl Drop for VirtualMemoryArena, the calls it makes: uncommit of
\* reserved.select_unchecked(ZERO, committed), then unreserve(reserved).
Drop_drop(self, to_uncommit) ==
    <<Step("uncommit", 0, to_uncommit.base, to_uncommit.amount),
      Step("unreserve", 0, self.reserved.base, self.reserved.amount)>>

\* arenas[a] goes out of scope.  A safety_assert that fails in
\* select_unchecked unwinds before anything is handed back to the OS.
ArenaDrop ==
    /\ Call
    /\ \E a \in ArenaIds :
        LET to_uncommit == select_unchecked(arenas[a].reserved, 0, arenas[a].committed)
        IN IF to_uncommit.res = "Panic"
           THEN /\ last' = [CallOn("Drop::drop", a) EXCEPT !.res = "Panic"]
                /\ os' = os
           ELSE /\ last' = [CallOn("Drop::drop", a) EXCEPT
                               !.res = "Ok",
                               !.steps = Drop_drop(arenas[a], to_uncommit.region)]
                /\ os' = Released(a, to_uncommit.region, arenas[a].reserved)
    /\ trip' = NoTrip
    /\ UNCHANGED <<build, hookSide, region, arenas, parents, cps, vecSide>>

\* Arenas that are made, split, allocated from and dropped.
NextArenaDrop ==
    \/ ArenaNew
    \/ ArenaNewPreallocate
    \/ ArenaAllocate
    \/ ArenaSplit
    \/ ArenaSplitUnchecked
    \/ ArenaDrop

SpecArenaDrop == InitArena /\ [][NextArenaDrop]_vars

\* ------------------------------------------------ properties: arena drops

\* The region arena p has handed out or can hand out: its reservation.
HandsOut(p) == arenas[p].reserved

\* The two regions have a byte in common.
Overlap(r, q) == ~Disjoint(r.base, r.amount, q.base, q.amount)

\* No byte was handed to unreserve twice.
ReleasedOnce ==
    \A i, j \in DOMAIN os.unreserved :
        i # j => ~Overlap(os.unreserved[i], os.unreserved[j])

\* The bytes of every reservation made are released once every arena is gone.
ReleasedAll ==
    (arenas # <<>> /\ ArenaIds = {}) =>
        \A b \in arenas[1].reserved.base
                    ..(arenas[1].reserved.base + arenas[1].reserved.amount - 1) :
            \E i \in DOMAIN os.unreserved :
                /\ os.unreserved[i].base <= b
                /\ b < os.unreserved[i].base + os.unreserved[i].amount

\* The drop of a child left alone what its parent, still alive, owns.
ParentUntouched ==
    \A i \in DOMAIN os.by :
        (parents[os.by[i]] \in ArenaIds) =>
            /\ ~Overlap(os.uncommitted[i], HandsOut(parents[os.by[i]]))
            /\ ~Overlap(os.unreserved[i], HandsOut(parents[os.by[i]]))

\* C27: across the drops of an arena and of the arenas split from it every
\* reserved byte is released to the OS exactly once, and the drop of a child
\* that split produced neither uncommits nor releases memory that its parent,
\* still alive, has handed out or can hand out.
C27_DropsReleaseOnce ==
    ~Panicked => ReleasedOnce /\ ReleasedAll /\ ParentUntouched

\* C28: with safety checks enabled, the safety_assert of select_unchecked
\* holds on every call of it made by the checked select, by new_preallocate,
\* by allocate and by the Drop of an arena, also when the range selected ends
\* at the end of the region: none of these calls panics on it.  (In the
\* release profile no other panic is possible in allocate and split; in
\* new_preallocate with to_commit <= to_reserve and in Drop there is none in
\* any profile.)
C28_SafetyAssertHolds ==
    safety_checks =>
        /\ (last.op = "new_preallocate" /\ last.os_reserve /\ last.arg2 <= last.arg)
                => last.res # "Panic"
        /\ last.op = "Drop::drop" => last.res # "Panic"
        /\ (last.op \in {"allocate", "split"} /\ ~overflow_checks)
                => last.res # "Panic"

====
